---- MODULE Spec2Model ----
(***************************************************************************)
(* Model of surg-care: the call-control web handler and session/call       *)
(* bootstrap of app.py, and the join-gate of the agent entrypoint of       *)
(* agent.py.                                                               *)
(*                                                                         *)
(* A Python str is a sequence of chunks (TLA+ strings): a literal of the   *)
(* source is one chunk, a phone number is one chunk per character, and a   *)
(* JSON text is one chunk per lexeme, a string lexeme being a quote chunk, *)
(* its content and a quote chunk.  Whitespace between lexemes is not       *)
(* represented, and an emoji of a literal is written as its name in        *)
(* parentheses.  A Python value is a record [t |-> type, v |-> payload].   *)
(***************************************************************************)
EXTENDS Integers, Sequences, FiniteSets, TLC

\* ------------------------------------------------------------------------
\* Bounds of the model
\* ------------------------------------------------------------------------
MaxClock == 1
MaxPhoneLen == 2

\* ------------------------------------------------------------------------
\* Python values
\* ------------------------------------------------------------------------
PyNone == [t |-> "none", v |-> <<>>]
PyStr(s) == [t |-> "str", v |-> s]
PyBool(b) == [t |-> "bool", v |-> IF b THEN <<"true">> ELSE <<"false">>]
PyNum(n) == [t |-> "num", v |-> <<ToString(n)>>]
PyList(l) == [t |-> "list", v |-> l]
PyDict(d) == [t |-> "dict", v |-> d]
EmptyDict == [k \in {} |-> PyNone]

\* bool(x) of Python
Truthy(x) ==
    CASE x.t = "none" -> FALSE
      [] x.t = "bool" -> x.v = <<"true">>
      [] x.t = "num"  -> x.v # <<"0">>
      [] x.t = "str"  -> Len(x.v) > 0
      [] x.t = "list" -> Len(x.v) > 0
      [] x.t = "dict" -> DOMAIN x.v # {}

\* x == y of Python, for the values of the model (True == 1 included)
PyEq(x, y) ==
    \/ x.t = y.t /\ x.v = y.v
    \/ x.t = "bool" /\ y.t = "num" /\ y.v = (IF x.v = <<"true">> THEN <<"1">> ELSE <<"0">>)
    \/ y.t = "bool" /\ x.t = "num" /\ x.v = (IF y.v = <<"true">> THEN <<"1">> ELSE <<"0">>)

\* d.get(k) of a dict
DictGet(d, k) == IF k \in DOMAIN d.v THEN d.v[k] ELSE PyNone

\* d[k] = x
DictPut(d, k, x) == [j \in (DOMAIN d) \cup {k} |-> IF j = k THEN x ELSE d[j]]

\* "p in s" in place of s.startswith(p)
StartsWith_anywhere(s, p) == \E i \in 1..Len(s) : s[i] = p

\* s.startswith(p), p one chunk
StartsWith(s, p) == Len(s) > 0 /\ s[1] = p

\* s.replace(old, new), old one chunk, new a str
RECURSIVE Replace(_, _, _)
Replace(s, old, new) ==
    IF s = <<>> THEN <<>>
    ELSE (IF Head(s) = old THEN new ELSE <<Head(s)>>) \o Replace(Tail(s), old, new)

\* s.rstrip(c)
RECURSIVE RStrip(_, _)
RStrip(s, c) ==
    IF s # <<>> /\ s[Len(s)] = c THEN RStrip(SubSeq(s, 1, Len(s) - 1), c) ELSE s

\* sub in s
Contains(s, sub) ==
    \E i \in 1..(Len(s) + 1) :
        /\ i + Len(sub) - 1 <= Len(s)
        /\ SubSeq(s, i, i + Len(sub) - 1) = sub

\* ------------------------------------------------------------------------
\* json.loads / json.dumps
\* ------------------------------------------------------------------------
Q == "\""
NumberLexemes == {ToString(n) : n \in 0..(MaxClock + 2)}
ParseFail == [ok |-> FALSE, val |-> PyNone, next |-> 0]
ParseOk(x, n) == [ok |-> TRUE, val |-> x, next |-> n]

\* a string lexeme opening at s[i]: up to the next quote chunk
ParseString(s, i) ==
    LET closing == {j \in (i + 1)..Len(s) : s[j] = Q}
    IN IF closing = {} THEN ParseFail
       ELSE LET j == CHOOSE c \in closing : \A d \in closing : c <= d
            IN ParseOk(PyStr(SubSeq(s, i + 1, j - 1)), j + 1)

RECURSIVE ParseValue(_, _), ParseMembers(_, _, _), ParseElements(_, _, _)
ParseValue(s, i) ==
    IF i > Len(s) THEN ParseFail
    ELSE IF s[i] = "{" THEN
        IF i + 1 <= Len(s) /\ s[i + 1] = "}" THEN ParseOk(PyDict(EmptyDict), i + 2)
        ELSE ParseMembers(s, i + 1, EmptyDict)
    ELSE IF s[i] = "[" THEN
        IF i + 1 <= Len(s) /\ s[i + 1] = "]" THEN ParseOk(PyList(<<>>), i + 2)
        ELSE ParseElements(s, i + 1, <<>>)
    ELSE IF s[i] = Q THEN ParseString(s, i)
    ELSE IF s[i] = "true" THEN ParseOk(PyBool(TRUE), i + 1)
    ELSE IF s[i] = "false" THEN ParseOk(PyBool(FALSE), i + 1)
    ELSE IF s[i] = "null" THEN ParseOk(PyNone, i + 1)
    ELSE IF s[i] \in NumberLexemes THEN ParseOk([t |-> "num", v |-> <<s[i]>>], i + 1)
    ELSE ParseFail

\* the members of an object, the first key expected at s[i]
ParseMembers(s, i, acc) ==
    IF i > Len(s) \/ s[i] # Q THEN ParseFail
    ELSE LET k == ParseString(s, i)
         IN IF ~k.ok \/ k.next > Len(s) \/ s[k.next] # ":" THEN ParseFail
            ELSE LET x == ParseValue(s, k.next + 1)
                 IN IF ~x.ok \/ x.next > Len(s) THEN ParseFail
                    ELSE LET d == DictPut(acc, k.val.v, x.val)
                         IN IF s[x.next] = "," THEN ParseMembers(s, x.next + 1, d)
                            ELSE IF s[x.next] = "}" THEN ParseOk(PyDict(d), x.next + 1)
                            ELSE ParseFail

\* the elements of an array, the first element expected at s[i]
ParseElements(s, i, acc) ==
    LET x == ParseValue(s, i)
    IN IF ~x.ok \/ x.next > Len(s) THEN ParseFail
       ELSE IF s[x.next] = "," THEN ParseElements(s, x.next + 1, Append(acc, x.val))
       ELSE IF s[x.next] = "]" THEN ParseOk(PyList(Append(acc, x.val)), x.next + 1)
       ELSE ParseFail

\* json.loads(s): ok = FALSE stands for json.JSONDecodeError
Loads(s) ==
    LET r == ParseValue(s, 1)
    IN IF r.ok /\ r.next = Len(s) + 1 THEN [ok |-> TRUE, val |-> r.val]
       ELSE [ok |-> FALSE, val |-> PyNone]

\* json.dumps of a scalar
DumpsScalar(x) ==
    CASE x.t = "str"  -> <<Q>> \o x.v \o <<Q>>
      [] x.t = "none" -> <<"null">>
      [] OTHER        -> x.v

\* json.dumps of a dict given as its items <<key, value>> in insertion order
RECURSIVE DumpsItems(_)
DumpsItems(items) ==
    IF items = <<>> THEN <<>>
    ELSE <<Q, Head(items)[1], Q, ":">> \o DumpsScalar(Head(items)[2])
         \o (IF Len(items) > 1 THEN <<",">> ELSE <<>>) \o DumpsItems(Tail(items))

Dumps(items) == <<"{">> \o DumpsItems(items) \o <<"}">>

\* ------------------------------------------------------------------------
\* State
\* ------------------------------------------------------------------------
VARIABLES
    config,             \* app.py 19-22: the module's environment variables
    clock,              \* time.time(), in seconds
    handler,            \* the function the request invoked, "" before it
    request,            \* its input: the method and the phone_number it was given
    pc,                 \* position of the handler
    local,              \* locals of the bootstrap: phone_number, timestamp, room_name, token, api_url
    response,           \* the response the handler holds
    net,                \* the requests issued, in order
    trace,              \* calls, token generations, requests and responses, in order
    ret,                \* return value of the bootstrap or debug view, None before it returns
    message,            \* index: the message handed to render_template
    raised,             \* the exception that left the handler, "" if none
    earlier,            \* the names of the rooms that the invocations served before got created
    ctx_room_metadata,  \* agent.py: ctx.room.metadata of the job, None or a str
    agent_pc,           \* agent.py: position of entrypoint
    gate,               \* agent.py: how the join-gate of entrypoint ended
    tts,                \* agent.py: the voice of the TTS the entrypoint holds
    attached,           \* agent.py: session.start has returned
    agent_exc           \* agent.py: the exception entrypoint raised, "" if none

app_vars == <<config, clock, handler, request, pc, local, response, net, trace, ret, message, raised, earlier>>
agent_vars == <<ctx_room_metadata, agent_pc, gate, tts, attached, agent_exc>>
vars == <<config, clock, handler, request, pc, local, response, net, trace, ret, message, raised, earlier,
          ctx_room_metadata, agent_pc, gate, tts, attached, agent_exc>>

\* ------------------------------------------------------------------------
\* agent.py: the metadata a room may carry
\* ------------------------------------------------------------------------
JStr(c) == <<Q, c, Q>>

\* JSON lexemes of a value for agent_required / agent_name; <<>> leaves the key out
RequiredLexemes == {<<>>, <<"true">>, <<"false">>, <<"1">>, <<"0">>, JStr("yes"), <<Q, Q>>, <<"null">>}
NameLexemes == {<<>>, JStr("telephone_agent"), JStr("other"), <<"true">>, <<"null">>}

Member(k, lex) == IF lex = <<>> THEN <<>> ELSE JStr(k) \o <<":">> \o lex
ObjectText(req, name) ==
    <<"{">> \o Member("agent_required", req)
            \o (IF req # <<>> /\ name # <<>> THEN <<",">> ELSE <<>>)
            \o Member("agent_name", name) \o <<"}">>

ObjectTexts == {ObjectText(req, name) : req \in RequiredLexemes, name \in NameLexemes}
GoodText == ObjectText(<<"true">>, JStr("telephone_agent"))
\* texts json.loads rejects
MalformedTexts == {<<"{">>, <<"not json">>, SubSeq(GoodText, 1, Len(GoodText) - 1),
                   GoodText \o GoodText, <<"{", Q, "agent_required", Q, "}">>}
\* JSON texts of values that are not objects
NonObjectTexts == {<<"[", "]">>, <<"[", "true", "]">>, <<"true">>, <<"null">>, <<"1">>,
                   JStr("telephone_agent")}

RoomMetadataValues ==
    {PyNone, PyStr(<<>>)} \cup {PyStr(x) : x \in ObjectTexts \cup MalformedTexts \cup NonObjectTexts}

\* ------------------------------------------------------------------------
\* agent.py: entrypoint
\* ------------------------------------------------------------------------
\* a gate that joins when either field matches
JoinGate_or(md) ==
    LET room_metadata == IF Truthy(md) THEN md ELSE PyStr(<<"{", "}">>)
        loaded == Loads(room_metadata.v)
        metadata == loaded.val
    IN IF ~loaded.ok THEN "decode_error"
       ELSE IF metadata.t # "dict" THEN "attribute_error"
       ELSE IF \/ Truthy(DictGet(metadata, <<"agent_required">>))
               \/ PyEq(DictGet(metadata, <<"agent_name">>), PyStr(<<"telephone_agent">>))
            THEN "proceed"
       ELSE "skip"

\* a gate whose except clause returns
JoinGate_decodeSkips(md) ==
    LET room_metadata == IF Truthy(md) THEN md ELSE PyStr(<<"{", "}">>)
        loaded == Loads(room_metadata.v)
        metadata == loaded.val
    IN IF ~loaded.ok THEN "skip"
       ELSE IF metadata.t # "dict" THEN "attribute_error"
       ELSE IF /\ Truthy(DictGet(metadata, <<"agent_required">>))
               /\ PyEq(DictGet(metadata, <<"agent_name">>), PyStr(<<"telephone_agent">>))
            THEN "proceed"
       ELSE "skip"

\* lines 77-89: the join-gate.  "skip" is the return of line 87, "proceed" the
\* fall-through of line 84, "decode_error" the fall-through of the except clause
\* of lines 88-89, "attribute_error" the AttributeError of .get on a value that
\* is not a dict, which no clause catches.
JoinGate(md) ==
    LET room_metadata == IF Truthy(md) THEN md ELSE PyStr(<<"{", "}">>)
        loaded == Loads(room_metadata.v)
        metadata == loaded.val
    IN IF ~loaded.ok THEN "decode_error"
       ELSE IF metadata.t # "dict" THEN "attribute_error"
       ELSE IF /\ Truthy(DictGet(metadata, <<"agent_required">>))
               /\ PyEq(DictGet(metadata, <<"agent_name">>), PyStr(<<"telephone_agent">>))
            THEN "proceed"
       ELSE "skip"

\* lines 73-89
EntrypointGate ==
    /\ agent_pc = "called"
    /\ gate' = JoinGate(ctx_room_metadata)
    /\ agent_pc' = CASE gate' = "skip" -> "returned"
                     [] gate' = "attribute_error" -> "raised"
                     [] OTHER -> "init_tts"
    /\ agent_exc' = IF gate' = "attribute_error" THEN "AttributeError" ELSE agent_exc
    /\ UNCHANGED <<ctx_room_metadata, tts, attached, app_vars>>

\* lines 91-109: the first voice, else the alternative voice, else raise
EntrypointTTS ==
    /\ agent_pc = "init_tts"
    /\ \E outcome \in {"EKLnhHUYUAXij3rXLC74", "21m00Tcm4TlvDq8ikWAM", "failed"} :
        /\ tts' = outcome
        /\ agent_pc' = IF outcome = "failed" THEN "raised" ELSE "start_session"
        /\ agent_exc' = IF outcome = "failed" THEN "All TTS options failed" ELSE agent_exc
    /\ UNCHANGED <<ctx_room_metadata, gate, attached, app_vars>>

\* lines 111-131: AgentSession(...) and session.start, which may raise
EntrypointStart ==
    /\ agent_pc = "start_session"
    /\ \E ok \in BOOLEAN :
        /\ agent_pc' = IF ok THEN "connect" ELSE "raised"
        /\ agent_exc' = IF ok THEN agent_exc ELSE "session.start"
        /\ attached' = ok
    /\ UNCHANGED <<ctx_room_metadata, gate, tts, app_vars>>

\* lines 133-134: ctx.connect, which may raise
EntrypointConnect ==
    /\ agent_pc = "connect"
    /\ \E ok \in BOOLEAN :
        /\ agent_pc' = IF ok THEN "greet" ELSE "raised"
        /\ agent_exc' = IF ok THEN agent_exc ELSE "ctx.connect"
    /\ UNCHANGED <<ctx_room_metadata, gate, tts, attached, app_vars>>

\* lines 136-187: the sleep and session.generate_reply, which may raise
EntrypointGreet ==
    /\ agent_pc = "greet"
    /\ \E ok \in BOOLEAN :
        /\ agent_pc' = IF ok THEN "returned" ELSE "raised"
        /\ agent_exc' = IF ok THEN agent_exc ELSE "session.generate_reply"
    /\ UNCHANGED <<ctx_room_metadata, gate, tts, attached, app_vars>>

\* ------------------------------------------------------------------------
\* app.py: configuration, inputs and the remote service
\* ------------------------------------------------------------------------
\* the values os.getenv may give each variable (lines 19-22)
ConfigValues ==
    [LIVEKIT_URL : {PyNone, PyStr(<<"wss://", "host", "/">>), PyStr(<<"http://", "host">>)},
     LIVEKIT_API_KEY : {PyNone, PyStr(<<"key">>)},
     LIVEKIT_API_SECRET : {PyNone, PyStr(<<"secret">>)},
     SIP_TRUNK_ID : {PyNone, PyStr(<<>>), PyStr(<<"trunk">>)}]

ConfigNames == <<"LIVEKIT_URL", "LIVEKIT_API_KEY", "LIVEKIT_API_SECRET", "SIP_TRUNK_ID">>

PhoneChars == {"+", "5", "-"}
RECURSIVE StrsUpTo(_)
StrsUpTo(n) ==
    IF n = 0 THEN {<<>>}
    ELSE StrsUpTo(n - 1) \cup {Append(s, c) : s \in {x \in StrsUpTo(n - 1) : Len(x) = n - 1}, c \in PhoneChars}
PhoneNumbers == StrsUpTo(MaxPhoneLen)

\* what a POST to the remote service may produce: err is the exception of the
\* post itself; text_err says that reading the body raises; ctype is the
\* Content-Type of the response
Statuses == {200, 404, 500}
Bodies == {<<"{", Q, "participant_id", Q, ":", Q, "PA_1", Q, "}">>, <<"{", "}">>, <<"[", "]">>,
           <<"not json">>, <<>>}
NoResponse == [err |-> "none", status |-> 0, text_err |-> FALSE, body |-> <<>>, ctype |-> ""]
Responses ==
    {[err |-> "ClientConnectorError", status |-> 0, text_err |-> FALSE, body |-> <<>>, ctype |-> ""]}
    \cup {[err |-> "", status |-> s, text_err |-> TRUE, body |-> <<>>, ctype |-> ""] : s \in Statuses}
    \cup [err : {""}, status : Statuses, text_err : {FALSE}, body : Bodies,
          ctype : {"application/json", "text/plain"}]

\* await response.json() of aiohttp: reads the body, checks the content type,
\* gives None for an empty body, else json.loads
ResponseJson(resp) ==
    IF resp.text_err THEN [ok |-> FALSE, val |-> PyNone, err |-> <<"ClientPayloadError">>]
    ELSE IF resp.ctype # "application/json" THEN [ok |-> FALSE, val |-> PyNone, err |-> <<"ContentTypeError">>]
    ELSE IF resp.body = <<>> THEN [ok |-> TRUE, val |-> PyNone, err |-> <<>>]
    ELSE LET l == Loads(resp.body)
         IN IF l.ok THEN [ok |-> TRUE, val |-> l.val, err |-> <<>>]
            ELSE [ok |-> FALSE, val |-> PyNone, err |-> <<"JSONDecodeError">>]

\* str(x) inside an f-string
Format(x) ==
    CASE x.t = "none" -> <<"None">>
      [] x.t = "bool" -> IF x.v = <<"true">> THEN <<"True">> ELSE <<"False">>
      [] x.t \in {"str", "num"} -> x.v
      [] OTHER -> <<"<object>">>

\* ', '.join(l)
RECURSIVE Join(_)
Join(l) ==
    IF l = <<>> THEN <<>>
    ELSE <<Head(l)>> \o (IF Len(l) > 1 THEN <<", ">> ELSE <<>>) \o Join(Tail(l))

\* ------------------------------------------------------------------------
\* app.py: pure helpers of the handlers
\* ------------------------------------------------------------------------
TokenLifetime == 3600

\* a token issuer without the credentials check of lines 26-27
generate_access_token_unchecked(cfg, now, jwt_ok) ==
    IF ~jwt_ok
    THEN [ok |-> FALSE, val |-> <<>>, err |-> <<"Failed to generate JWT: ", "jwt.encode">>]
    ELSE [ok |-> TRUE, err |-> <<>>,
          val |-> <<"jwt:">> \o cfg.LIVEKIT_API_KEY.v \o <<ToString(now), ToString(now + 3600)>>]

\* lines 24-80: jwt_ok says whether jwt.encode returns
generate_access_token(cfg, now, jwt_ok) ==
    IF ~Truthy(cfg.LIVEKIT_API_KEY) \/ ~Truthy(cfg.LIVEKIT_API_SECRET)
    THEN [ok |-> FALSE, val |-> <<>>, err |-> <<"Missing LIVEKIT_API_KEY or LIVEKIT_API_SECRET">>]
    ELSE IF ~jwt_ok
    THEN [ok |-> FALSE, val |-> <<>>, err |-> <<"Failed to generate JWT: ", "jwt.encode">>]
    ELSE [ok |-> TRUE, err |-> <<>>,
          val |-> <<"jwt:">> \o cfg.LIVEKIT_API_KEY.v \o <<ToString(now), ToString(now + TokenLifetime)>>]

\* a check that leaves the API key out
ConfigMissing_noKey(cfg) == \E i \in {1, 3, 4} : ~Truthy(cfg[ConfigNames[i]])

\* line 86, line 253: not all([...])
ConfigMissing(cfg) == \E i \in 1..4 : ~Truthy(cfg[ConfigNames[i]])

\* line 87, line 254: the names os.getenv gives nothing for
RECURSIVE MissingFrom(_, _)
MissingFrom(cfg, i) ==
    IF i > 4 THEN <<>>
    ELSE (IF ~Truthy(cfg[ConfigNames[i]]) THEN <<ConfigNames[i]>> ELSE <<>>) \o MissingFrom(cfg, i + 1)
missing_vars(cfg) == MissingFrom(cfg, 1)

\* lines 101-110, lines 263-269
ApiUrl(url) ==
    RStrip(IF StartsWith(url, "wss://") THEN Replace(url, "wss://", <<"https://">>)
           ELSE IF StartsWith(url, "ws://") THEN Replace(url, "ws://", <<"http://">>)
           ELSE url, "/")

\* line 93, line 259
RoomName(timestamp) == <<"surgical-call-", ToString(timestamp)>>

\* lines 116-119, lines 272-275
Headers(token) == [Authorization |-> <<"Bearer ">> \o token, ContentType |-> "application/json"]

\* a metadata text that names the agent 'telephone-agent'
RoomMetadata_otherName(phone_number, timestamp) ==
    Dumps(<< <<"agent_required", PyBool(TRUE)>>,
             <<"agent_name", PyStr(<<"telephone-agent">>)>>,
             <<"call_type", PyStr(<<"sip_outbound">>)>>,
             <<"phone_number", PyStr(phone_number)>>,
             <<"timestamp", PyNum(timestamp)>> >>)

\* lines 125-131: json.dumps of the metadata of create_room_and_call
RoomMetadata(phone_number, timestamp) ==
    Dumps(<< <<"agent_required", PyBool(TRUE)>>,
             <<"agent_name", PyStr(<<"telephone_agent">>)>>,
             <<"call_type", PyStr(<<"sip_outbound">>)>>,
             <<"phone_number", PyStr(phone_number)>>,
             <<"timestamp", PyNum(timestamp)>> >>)

room_data(l) ==
    [name |-> l.room_name, empty_timeout |-> 300, max_participants |-> 10,
     metadata |-> PyStr(RoomMetadata(l.phone_number, l.timestamp))]

\* lines 278-282: no metadata key
room_data_delay(l) ==
    [name |-> l.room_name, empty_timeout |-> 300, max_participants |-> 10, metadata |-> PyNone]

\* a call request that names the session by a timestamp taken anew
sip_data_newName(cfg, l) ==
    [sip_trunk_id |-> cfg.SIP_TRUNK_ID.v,
     sip_call_to |-> l.phone_number,
     room_name |-> <<"surgical-call-", ToString(l.timestamp + 1)>>,
     participant_identity |-> <<"phone-">> \o Replace(Replace(l.phone_number, "+", <<>>), "-", <<>>),
     participant_name |-> <<"Phone Call to ">> \o l.phone_number,
     participant_metadata |-> Dumps(<< <<"phone_number", PyStr(l.phone_number)>>,
                                       <<"call_type", PyStr(<<"outbound">>)>>,
                                       <<"timestamp", PyNum(l.timestamp)>> >>),
     play_dialtone |-> TRUE]

\* lines 149-161, lines 291-303
sip_data(cfg, l) ==
    [sip_trunk_id |-> cfg.SIP_TRUNK_ID.v,
     sip_call_to |-> l.phone_number,
     room_name |-> l.room_name,
     participant_identity |-> <<"phone-">> \o Replace(Replace(l.phone_number, "+", <<>>), "-", <<>>),
     participant_name |-> <<"Phone Call to ">> \o l.phone_number,
     participant_metadata |-> Dumps(<< <<"phone_number", PyStr(l.phone_number)>>,
                                       <<"call_type", PyStr(<<"outbound">>)>>,
                                       <<"timestamp", PyNum(l.timestamp)>> >>),
     play_dialtone |-> TRUE]

\* lines 318-325
update_data(l) ==
    [room |-> l.room_name,
     metadata |-> PyStr(Dumps(<< <<"agent_required", PyBool(TRUE)>>,
                                 <<"agent_name", PyStr(<<"telephone_agent">>)>>,
                                 <<"call_established", PyBool(TRUE)>> >>))]

Request(rpc, l, data) ==
    [rpc |-> rpc, url |-> l.api_url \o <<"/twirp/livekit.", rpc>>, headers |-> Headers(l.token), json |-> data]

\* the strings the handlers return
ValidationError == <<"(cross mark) Error: Phone number must be in E.164 format (e.g., +1XXXXXXXXXX).">>
MissingEnvError(cfg) == <<"Error: Missing environment variables: ">> \o Join(missing_vars(cfg))
TokenError(e) == <<"Token generation error: ">> \o e
RoomError(status, text) == <<"Error creating room: ", ToString(status), " - ">> \o text
SipError(status, text) == <<"Error creating SIP participant: ", ToString(status), " - ">> \o text
ExceptionOccurred(e) == <<"Exception occurred: ">> \o e
CallInitiated(room_name, participant_id) ==
    <<"(check mark) ", "Call initiated", " successfully!\nRoom: ">> \o room_name
    \o <<"\nParticipant ID: ">> \o participant_id \o <<"\n(robot) Agent should join the call shortly">>
CallInitiatedDelay(phone_number, room_name) ==
    <<"(check mark) ", "Call initiated", " to ">> \o phone_number \o <<"!\nRoom: ">> \o room_name
    \o <<"\n(robot) Attempting to add agent...">>

NoLocal == [phone_number |-> <<>>, timestamp |-> 0, room_name |-> <<>>, token |-> <<>>, api_url |-> <<>>]
Event(ev, name, status) == [ev |-> ev, name |-> name, status |-> status]

\* ------------------------------------------------------------------------
\* app.py: the handlers
\* ------------------------------------------------------------------------
\* the bootstrap or view returns v; index hands it to render_template (line 346-348)
Return(h, v) ==
    /\ ret' = PyStr(v)
    /\ message' = IF h = "index" THEN PyStr(v) ELSE message
    /\ pc' = "done"
    /\ UNCHANGED raised

\* the handler moves on to position p
Goto(p) ==
    /\ pc' = p
    /\ UNCHANGED <<ret, message, raised>>

\* an except clause that names the client errors of aiohttp only
ExceptException_clientOnly(cls) == cls \in {"ClientConnectorError", "ClientPayloadError", "ContentTypeError"}

\* "except Exception" (lines 176, 245, 333): every exception but the
\* BaseException-only classes
ExceptException(cls) == cls \notin {"KeyboardInterrupt", "SystemExit", "GeneratorExit", "CancelledError"}

\* an exception of class cls with text e is raised inside the try block of the
\* bootstrap (lines 90-177, 257-334)
Raise(h, cls, e) ==
    IF ExceptException(cls) THEN Return(h, ExceptionOccurred(e))
    ELSE /\ raised' = cls
         /\ pc' = "done"
         /\ UNCHANGED <<ret, message>>

\* a post that is sent again
Send_twice(log, req) == log \o <<req, req>>

\* session.post(url, json=data, headers=headers): the request leaves once
Send(log, req) == Append(log, req)

\* a status test that lets every status below 500 through
StatusOk_below500(status) == status < 500

\* the status test of lines 142, 170, 287, 308
StatusOk(status) == status = 200

\* the request and what came back, as events
Exchange(rpc, resp) ==
    <<Event("request", rpc, 0),
      IF resp.err # "" THEN Event("error", rpc, 0) ELSE Event("response", rpc, resp.status)>>

\* the call of generate_access_token, as an event
TokenEvent(tok) == Event(IF tok.ok THEN "token" ELSE "token_error", "generate_access_token", 0)

\* lines 82-113: create_room_and_call up to the first request; tr is the trace so far
CreateRoomAndCallBegin(h, phone_number, jwt_ok, tr) ==
    LET entered == Append(tr, Event("enter", "create_room_and_call", 0))
        tok == generate_access_token(config, clock, jwt_ok)
    IN IF ConfigMissing(config)
       THEN /\ Return(h, MissingEnvError(config))
            /\ trace' = entered
            /\ UNCHANGED local
       ELSE IF ~tok.ok
       THEN /\ Return(h, TokenError(tok.err))
            /\ trace' = Append(entered, TokenEvent(tok))
            /\ local' = [NoLocal EXCEPT !.phone_number = phone_number, !.timestamp = clock,
                                        !.room_name = RoomName(clock)]
       ELSE /\ Goto("crc_create_room")
            /\ trace' = Append(entered, TokenEvent(tok))
            /\ local' = [phone_number |-> phone_number, timestamp |-> clock,
                         room_name |-> RoomName(clock), token |-> tok.val,
                         api_url |-> ApiUrl(config.LIVEKIT_URL.v)]

\* lines 336-348, GET
IndexGet ==
    /\ pc = "idle"
    /\ handler' = "index"
    /\ trace' = Append(trace, Event("enter", "index", 0))
    /\ request' = [method |-> "GET", form |-> PyNone]
    /\ message' = PyNone
    /\ pc' = "done"
    /\ UNCHANGED <<config, clock, local, response, net, ret, raised, agent_vars, earlier>>

\* lines 336-348, POST: form is the phone_number field, None when the form has none
IndexPost ==
    /\ pc = "idle"
    /\ handler' = "index"
    /\ \E form \in {PyNone} \cup {PyStr(p) : p \in PhoneNumbers}, jwt_ok \in BOOLEAN :
        LET tr == Append(trace, Event("enter", "index", 0))
        IN /\ request' = [method |-> "POST", form |-> form]
           /\ IF form.t = "none"
              THEN /\ raised' = "BadRequestKeyError"
                   /\ pc' = "done"
                   /\ trace' = tr
                   /\ UNCHANGED <<local, ret, message>>
              ELSE IF ~StartsWith(form.v, "+")
              THEN /\ message' = PyStr(ValidationError)
                   /\ pc' = "done"
                   /\ trace' = tr
                   /\ UNCHANGED <<local, ret, raised>>
              ELSE CreateRoomAndCallBegin("index", form.v, jwt_ok, tr)
    /\ UNCHANGED <<config, clock, response, net, agent_vars, earlier>>

\* lines 135-143: the create-session request of create_room_and_call
CreateRoom ==
    /\ pc = "crc_create_room"
    /\ \E resp \in Responses :
        /\ net' = Send(net, Request("RoomService/CreateRoom", local, room_data(local)))
        /\ trace' = trace \o Exchange("CreateRoom", resp)
        /\ IF resp.err # "" THEN Raise(handler, resp.err, <<resp.err>>) /\ response' = resp
           ELSE IF resp.text_err THEN Raise(handler, "ClientPayloadError", <<"ClientPayloadError">>) /\ response' = resp
           ELSE IF ~StatusOk(resp.status) THEN Return(handler, RoomError(resp.status, resp.body)) /\ response' = resp
           ELSE Goto("crc_sip") /\ response' = NoResponse
    /\ UNCHANGED <<config, clock, handler, request, local, agent_vars, earlier>>

\* result.get('participant_id', 'N/A')
ParticipantId(result) ==
    IF <<"participant_id">> \in DOMAIN result.v THEN Format(result.v[<<"participant_id">>]) ELSE <<"N/A">>

\* lines 148-177: the create-outbound-call request of create_room_and_call
CreateSIPParticipant ==
    /\ pc = "crc_sip"
    /\ \E resp \in Responses :
        LET result == ResponseJson(resp)
        IN /\ net' = Send(net, Request("SIP/CreateSIPParticipant", local, sip_data(config, local)))
           /\ trace' = trace \o Exchange("CreateSIPParticipant", resp)
           /\ response' = resp
           /\ IF resp.err # "" THEN Raise(handler, resp.err, <<resp.err>>)
              ELSE IF resp.text_err THEN Raise(handler, "ClientPayloadError", <<"ClientPayloadError">>)
              ELSE IF ~StatusOk(resp.status) THEN Return(handler, SipError(resp.status, resp.body))
              ELSE IF ~result.ok THEN Raise(handler, result.err[1], result.err)
              ELSE IF result.val.t # "dict" THEN Raise(handler, "AttributeError", <<"AttributeError">>)
              ELSE Return(handler, CallInitiated(local.room_name, ParticipantId(result.val)))
    /\ UNCHANGED <<config, clock, handler, request, local, agent_vars, earlier>>

\* lines 250-269: create_room_and_call_with_agent_delay up to the first request
CallWithAgentDelay ==
    /\ pc = "idle"
    /\ handler' = "create_room_and_call_with_agent_delay"
    /\ \E phone_number \in PhoneNumbers, jwt_ok \in BOOLEAN :
        LET entered == Append(trace, Event("enter", "create_room_and_call_with_agent_delay", 0))
            tok == generate_access_token(config, clock, jwt_ok)
        IN /\ request' = [method |-> "call", form |-> PyStr(phone_number)]
           /\ IF ConfigMissing(config)
              THEN /\ Return(handler', MissingEnvError(config))
                   /\ trace' = entered
                   /\ UNCHANGED local
              ELSE IF ~tok.ok
              THEN /\ Raise(handler', "ValueError", tok.err)
                   /\ trace' = Append(entered, TokenEvent(tok))
                   /\ local' = [NoLocal EXCEPT !.phone_number = phone_number, !.timestamp = clock,
                                               !.room_name = RoomName(clock)]
              ELSE /\ Goto("delay_create_room")
                   /\ trace' = Append(entered, TokenEvent(tok))
                   /\ local' = [phone_number |-> phone_number, timestamp |-> clock,
                                room_name |-> RoomName(clock), token |-> tok.val,
                                api_url |-> ApiUrl(config.LIVEKIT_URL.v)]
    /\ UNCHANGED <<config, clock, response, net, agent_vars, earlier>>

\* lines 284-288: the create-session request of the delayed path
DelayCreateRoom ==
    /\ pc = "delay_create_room"
    /\ \E resp \in Responses :
        /\ net' = Send(net, Request("RoomService/CreateRoom", local, room_data_delay(local)))
        /\ trace' = trace \o Exchange("CreateRoom", resp)
        /\ IF resp.err # "" THEN Raise(handler, resp.err, <<resp.err>>) /\ response' = resp
           ELSE IF StatusOk(resp.status) THEN Goto("delay_sip") /\ response' = NoResponse
           ELSE IF resp.text_err THEN Raise(handler, "ClientPayloadError", <<"ClientPayloadError">>) /\ response' = resp
           ELSE Return(handler, RoomError(resp.status, resp.body)) /\ response' = resp
    /\ UNCHANGED <<config, clock, handler, request, local, agent_vars, earlier>>

\* lines 290-312: the create-outbound-call request of the delayed path
DelayCreateSIPParticipant ==
    /\ pc = "delay_sip"
    /\ \E resp \in Responses :
        LET sip_result == ResponseJson(resp)
        IN /\ net' = Send(net, Request("SIP/CreateSIPParticipant", local, sip_data(config, local)))
           /\ trace' = trace \o Exchange("CreateSIPParticipant", resp)
           /\ IF resp.err # "" THEN Raise(handler, resp.err, <<resp.err>>) /\ response' = resp
              ELSE IF ~StatusOk(resp.status) /\ resp.text_err
                   THEN Raise(handler, "ClientPayloadError", <<"ClientPayloadError">>) /\ response' = resp
              ELSE IF ~StatusOk(resp.status) THEN Return(handler, SipError(resp.status, resp.body)) /\ response' = resp
              ELSE IF ~sip_result.ok THEN Raise(handler, sip_result.err[1], sip_result.err) /\ response' = resp
              ELSE IF sip_result.val.t # "dict"
                   THEN Raise(handler, "AttributeError", <<"AttributeError">>) /\ response' = resp
              ELSE Goto("delay_update") /\ response' = NoResponse
    /\ UNCHANGED <<config, clock, handler, request, local, agent_vars, earlier>>

\* an update whose refusal is reported to the caller
UpdateOutcome_checked(resp, l) ==
    IF resp.status = 200 THEN CallInitiatedDelay(l.phone_number, l.room_name)
    ELSE <<"Error updating room metadata: ", ToString(resp.status)>>

\* lines 327-331: the status of the update is printed and the success string
\* is returned whatever the status is
UpdateOutcome(resp, l) == CallInitiatedDelay(l.phone_number, l.room_name)

\* lines 314-334: the sleep, the metadata update and the return of the delayed path
DelayUpdateRoomMetadata ==
    /\ pc = "delay_update"
    /\ \E resp \in Responses :
        /\ net' = Send(net, Request("RoomService/UpdateRoomMetadata", local, update_data(local)))
        /\ trace' = trace \o Exchange("UpdateRoomMetadata", resp)
        /\ response' = resp
        /\ IF resp.err # "" THEN Raise(handler, resp.err, <<resp.err>>)
           ELSE Return(handler, UpdateOutcome(resp, local))
    /\ UNCHANGED <<config, clock, handler, request, local, agent_vars, earlier>>

\* lines 212-246: the view manual_dispatch; room is the query argument, None
\* when absent; requests.post raises or gives a status and a text
ManualDispatch ==
    /\ pc = "idle"
    /\ handler' = "manual_dispatch"
    /\ \E room \in {PyNone, PyStr(<<"r1">>)}, jwt_ok \in BOOLEAN, r1, r2 \in Responses :
        LET room_name == IF room.t = "none" THEN <<"test-room">> ELSE room.v
            entered == Append(trace, Event("enter", "manual_dispatch", 0))
            tok == generate_access_token(config, clock, jwt_ok)
            l == [NoLocal EXCEPT !.room_name = room_name, !.token = tok.val,
                     !.api_url = RStrip(Replace(Replace(config.LIVEKIT_URL.v, "wss://", <<"https://">>),
                                                "ws://", <<"http://">>), "/")]
            req1 == Request("RoomService/CreateRoom", l, [name |-> room_name])
            req2 == Request("AgentDispatchService/CreateDispatch", l,
                            [room |-> room_name, agent_name |-> <<"telephone_agent">>])
            Pre(e) == <<"<pre>", "Exception: ">> \o e \o <<"</pre>">>
        IN /\ ~r1.text_err /\ ~r2.text_err
           /\ request' = [method |-> "GET", form |-> room]
           /\ pc' = "done"
           /\ UNCHANGED message
           /\ IF ~tok.ok
              THEN /\ ret' = PyStr(Pre(tok.err))
                   /\ trace' = Append(entered, TokenEvent(tok))
                   /\ UNCHANGED <<local, net, response>>
              ELSE IF config.LIVEKIT_URL.t = "none"
              THEN /\ ret' = PyStr(Pre(<<"AttributeError">>))
                   /\ trace' = Append(entered, TokenEvent(tok))
                   /\ UNCHANGED <<local, net, response>>
              ELSE IF r1.err # ""
              THEN /\ ret' = PyStr(Pre(<<r1.err>>))
                   /\ trace' = Append(entered, TokenEvent(tok))
                                \o Exchange("CreateRoom", r1)
                   /\ local' = l
                   /\ net' = Send(net, req1)
                   /\ response' = r1
              ELSE IF r2.err # ""
              THEN /\ ret' = PyStr(Pre(<<r2.err>>))
                   /\ trace' = Append(entered, TokenEvent(tok))
                                \o Exchange("CreateRoom", r1) \o Exchange("CreateDispatch", r2)
                   /\ local' = l
                   /\ net' = Send(Send(net, req1), req2)
                   /\ response' = r2
              ELSE /\ ret' = PyStr(<<"<pre>", "Room creation: ", ToString(r1.status), "\n",
                                     "Agent dispatch: ", ToString(r2.status), "\n", "Response: ">>
                                   \o r2.body \o <<"\n", "</pre>">>)
                   /\ trace' = Append(entered, TokenEvent(tok))
                                \o Exchange("CreateRoom", r1) \o Exchange("CreateDispatch", r2)
                   /\ local' = l
                   /\ net' = Send(Send(net, req1), req2)
                   /\ response' = r2
    /\ UNCHANGED <<config, clock, raised, agent_vars, earlier>>

\* a second of time.time() passes
Tick ==
    /\ clock < MaxClock
    /\ clock' = clock + 1
    /\ UNCHANGED <<config, handler, request, pc, local, response, net, trace, ret, message, raised, agent_vars, earlier>>

\* ------------------------------------------------------------------------
\* Specifications
\* ------------------------------------------------------------------------
AppIdle ==
    /\ clock = 0
    /\ handler = ""
    /\ request = [method |-> "", form |-> PyNone]
    /\ pc = "idle"
    /\ local = NoLocal
    /\ response = NoResponse
    /\ net = <<>>
    /\ trace = <<>>
    /\ ret = PyNone
    /\ message = PyNone
    /\ raised = ""
    /\ earlier = <<>>

\* the web application serving one request
Init ==
    /\ config \in ConfigValues
    /\ AppIdle
    /\ ctx_room_metadata = PyNone
    /\ agent_pc = "no_job"
    /\ gate = ""
    /\ tts = ""
    /\ attached = FALSE
    /\ agent_exc = ""

Next ==
    \/ IndexGet
    \/ IndexPost
    \/ CreateRoom
    \/ CreateSIPParticipant
    \/ CallWithAgentDelay
    \/ DelayCreateRoom
    \/ DelayCreateSIPParticipant
    \/ DelayUpdateRoomMetadata
    \/ ManualDispatch
    \/ Tick

Spec == Init /\ [][Next]_vars

\* ------------------------------------------------------------------------
\* Properties of the web application (Spec)
\* ------------------------------------------------------------------------
\* the rpc names of the requests issued, in order
RequestNames == [i \in 1..Len(net) |-> net[i].rpc]
CountRpc(rpc) == Cardinality({i \in 1..Len(net) : net[i].rpc = rpc})
HasEvent(ev, name) == \E i \in 1..Len(trace) : trace[i].ev = ev /\ trace[i].name = name
EnteredBootstrap ==
    \/ HasEvent("enter", "create_room_and_call")
    \/ HasEvent("enter", "create_room_and_call_with_agent_delay")
\* the field of the request is a str that begins with '+'
LeadingPlus == request.form.t = "str" /\ request.form.v # <<>> /\ request.form.v[1] = "+"
\* the status the create-session request came back with, as a set
RoomStatuses == {trace[i].status : i \in {j \in 1..Len(trace) : trace[j] = Event("response", "CreateRoom", trace[j].status)}}
IsPrefix(s, t) == Len(s) <= Len(t) /\ \A i \in 1..Len(s) : s[i] = t[i]
CallOrder == <<"RoomService/CreateRoom", "SIP/CreateSIPParticipant", "RoomService/UpdateRoomMetadata">>

C1_InvalidPost ==
    /\ handler = "index"
    /\ request.method = "POST"
    /\ request.form.t = "str"
    /\ ~LeadingPlus

\* C1: a POST to index whose phone_number does not start with '+' issues no
\* network request, never enters create_room_and_call, and renders the E.164
\* validation error.
C1_NoRequestOnInvalidNumber ==
    C1_InvalidPost =>
        /\ net = <<>>
        /\ \A i \in 1..Len(trace) : trace[i].ev \notin {"request", "token", "token_error"}
        /\ ~HasEvent("enter", "create_room_and_call")
        /\ pc = "done"
        /\ raised = ""
        /\ message = PyStr(<<"(cross mark) Error: Phone number must be in E.164 format (e.g., +1XXXXXXXXXX).">>)

C1_Witness ==
    /\ C1_InvalidPost
    /\ Len(request.form.v) = 2
    /\ request.form.v[2] = "+"
    /\ message.t = "str"

\* the create-outbound-call request is issued only after create-session came back with 200
SipOnlyAfterRoom200 ==
    \A i \in 1..Len(trace) :
        (trace[i].ev = "request" /\ trace[i].name = "CreateSIPParticipant")
            => \E j \in 1..(i - 1) : trace[j] = Event("response", "CreateRoom", 200)

RoomRefused == EnteredBootstrap /\ \E s \in RoomStatuses : s # 200

\* C2 as stated: the create-outbound-call request is issued only after
\* create-session returned 200, and when create-session returns another status
\* no call-placement request is issued and the returned string contains the
\* status code and the response body.
C2_Original ==
    /\ SipOnlyAfterRoom200
    /\ RoomRefused =>
        /\ CountRpc("SIP/CreateSIPParticipant") = 0
        /\ pc = "done"
        /\ ret.t = "str"
        /\ Contains(ret.v, <<ToString(response.status)>>)
        /\ Contains(ret.v, response.body)

\* C2 amended: the create-outbound-call request is issued only after
\* create-session returned 200; when create-session returns another status no
\* call-placement request is issued, and the returned string is "Error creating
\* room: <status> - <body>" when the body can be read and the "Exception
\* occurred" string when reading the body raises.
C2_SipOnlyAfterRoomCreated ==
    /\ SipOnlyAfterRoom200
    /\ RoomRefused =>
        /\ CountRpc("SIP/CreateSIPParticipant") = 0
        /\ Len(net) = 1
        /\ pc = "done"
        /\ response.status \in RoomStatuses
        /\ ret = IF response.text_err
                 THEN PyStr(<<"Exception occurred: ", "ClientPayloadError">>)
                 ELSE PyStr(<<"Error creating room: ", ToString(response.status), " - ">> \o response.body)

C2_Witness ==
    /\ handler = "create_room_and_call_with_agent_delay"
    /\ RoomRefused
    /\ response.status = 404
    /\ response.body = <<"not json">>
    /\ Contains(ret.v, <<"404", " - ", "not json">>)

BootstrapDone == EnteredBootstrap /\ pc = "done"

\* C6 as stated: for a phone number beginning with '+' the flow attempts
\* exactly the calls create-session, create-outbound-call and, on the
\* delayed-agent path, one metadata update, in this order.
C6_Original ==
    (BootstrapDone /\ LeadingPlus) =>
        RequestNames = IF handler = "index" THEN SubSeq(CallOrder, 1, 2) ELSE CallOrder

\* C6 amended: the calls the flow attempts are a prefix of the order
\* create-session, create-outbound-call, metadata update: at most two on the
\* create_room_and_call path the form handler uses and at most three on the
\* delayed-agent path, each attempted only after the one before it came back
\* with status 200, and all of them when the flow returns "Call initiated".
C6_CallsArePrefixOfOrder ==
    EnteredBootstrap =>
        /\ IsPrefix(RequestNames, CallOrder)
        /\ handler = "index" => Len(net) <= 2
        /\ Len(net) >= 2 => Event("response", "CreateRoom", 200) \in {trace[i] : i \in 1..Len(trace)}
        /\ Len(net) >= 3 => Event("response", "CreateSIPParticipant", 200) \in {trace[i] : i \in 1..Len(trace)}
        /\ (pc = "done" /\ Contains(ret.v, <<"Call initiated">>))
                => Len(net) = IF handler = "index" THEN 2 ELSE 3

C6_Witness ==
    /\ handler = "create_room_and_call_with_agent_delay"
    /\ LeadingPlus
    /\ pc = "done"
    /\ RequestNames = CallOrder
    /\ Contains(ret.v, <<"Call initiated">>)

AllConfigured ==
    \A n \in {"LIVEKIT_URL", "LIVEKIT_API_KEY", "LIVEKIT_API_SECRET", "SIP_TRUNK_ID"} :
        config[n].t = "str" /\ config[n].v # <<>>

BothReturned200 ==
    /\ handler = "index"
    /\ AllConfigured
    /\ LeadingPlus
    /\ \E i \in 1..Len(trace) : trace[i] = Event("response", "CreateRoom", 200)
    /\ \E i \in 1..Len(trace) : trace[i] = Event("response", "CreateSIPParticipant", 200)

\* the session name is surgical-call-<timestamp>, returned and sent in both requests
SessionNameEverywhere ==
    LET name == <<"surgical-call-", ToString(local.timestamp)>>
    IN /\ local.timestamp \in 0..clock
       /\ pc = "done"
       /\ Contains(ret.v, <<"Call initiated">>)
       /\ Contains(ret.v, name)
       /\ Len(net) = 2
       /\ net[1].rpc = "RoomService/CreateRoom" /\ net[1].json.name = name
       /\ net[2].rpc = "SIP/CreateSIPParticipant" /\ net[2].json.room_name = name

\* C7 as stated: with the configuration present, a phone number starting with
\* '+' and both requests returning 200, create_room_and_call returns a string
\* with 'Call initiated' and the session name surgical-call-<timestamp>, the
\* name sent in both requests.
C7_Original == BothReturned200 => SessionNameEverywhere

\* the body of the create-outbound-call response is read and is a JSON object
SipBodyIsJsonObject ==
    /\ ~response.text_err
    /\ response.ctype = "application/json"
    /\ response.body # <<>>
    /\ response.body[1] = "{"
    /\ response.body[Len(response.body)] = "}"

\* C7 amended: with the configuration present, a phone number starting with
\* '+', both requests returning 200 and the create-outbound-call response
\* carrying a readable application/json body that decodes to an object,
\* create_room_and_call returns a string with 'Call initiated' and the session
\* name surgical-call-<timestamp>, the name sent in both requests; with any
\* other body it returns the "Exception occurred" string.
C7_CallInitiated ==
    BothReturned200 =>
        IF SipBodyIsJsonObject THEN SessionNameEverywhere
        ELSE /\ pc = "done"
             /\ ret.t = "str"
             /\ ret.v[1] = "Exception occurred: "

C7_Witness ==
    /\ BothReturned200
    /\ SipBodyIsJsonObject
    /\ local.timestamp = 1
    /\ Contains(ret.v, <<"Call initiated">>)
    /\ Contains(ret.v, <<"PA_1">>)

\* C8: a form submission issues at most one create-session request and at
\* most one create-outbound-call request, whatever the remote service
\* answers: nothing is sent again after a failure.
C8_NoRetry ==
    /\ CountRpc("RoomService/CreateRoom") <= 1
    /\ CountRpc("SIP/CreateSIPParticipant") <= 1
    /\ (\E i \in 1..Len(trace) : trace[i].ev = "error" \/ (trace[i].ev = "response" /\ trace[i].status # 200))
            => (EnteredBootstrap => pc = "done" /\ trace[Len(trace)].ev \in {"error", "response"})
    /\ Len(net) = Cardinality({i \in 1..Len(trace) : trace[i].ev = "request"})

C8_Witness ==
    /\ handler = "index"
    /\ pc = "done"
    /\ CountRpc("RoomService/CreateRoom") = 1
    /\ CountRpc("SIP/CreateSIPParticipant") = 1
    /\ trace[Len(trace)] = Event("error", "CreateSIPParticipant", 0)

ErrorPrefixes ==
    {"Error: Missing environment variables: ", "Token generation error: ", "Error creating room: ",
     "Error creating SIP participant: ", "Exception occurred: "}

CredentialsAbsent ==
    \/ config.LIVEKIT_API_KEY.t = "none" \/ config.LIVEKIT_API_KEY.v = <<>>
    \/ config.LIVEKIT_API_SECRET.t = "none" \/ config.LIVEKIT_API_SECRET.v = <<>>

\* C10: a token has been generated before the first request is issued;
\* generate_access_token raises when the API key or the API secret is absent;
\* and when token generation fails inside create_room_and_call the run returns
\* a 'Token generation error' string with no request issued.
C10_TokenBeforeRequest ==
    /\ \A i \in 1..Len(trace) :
        trace[i].ev = "request" => \E j \in 1..(i - 1) : trace[j].ev = "token"
    /\ \A i \in 1..Len(net) : Len(net[i].headers.Authorization) > 1
    /\ CredentialsAbsent => ~HasEvent("token", "generate_access_token") /\ net = <<>>
    /\ (handler = "index" /\ HasEvent("token_error", "generate_access_token")) =>
        /\ pc = "done"
        /\ net = <<>>
        /\ ret.t = "str"
        /\ ret.v[1] = "Token generation error: "
        /\ message = ret

C10_Witness ==
    /\ handler = "index"
    /\ HasEvent("token_error", "generate_access_token")
    /\ ret = PyStr(<<"Token generation error: ", "Failed to generate JWT: ", "jwt.encode">>)

\* generate_access_token is reached with a credential absent, and raises
C10_RaisesWitness ==
    /\ CredentialsAbsent
    /\ HasEvent("token_error", "generate_access_token")

\* the delayed path got an answer to its metadata update that is not a 200
UpdateRefused ==
    /\ handler = "create_room_and_call_with_agent_delay"
    /\ \E i \in 1..Len(trace) :
        trace[i].ev = "response" /\ trace[i].name = "UpdateRoomMetadata" /\ trace[i].status # 200

\* C12: in create_room_and_call_with_agent_delay, once the call has been
\* placed, a metadata update answered with a status other than 200 is not
\* compensated: the update is the last request (no teardown, no retry), the
\* call request stays the one answered with 200, and the function returns the
\* 'Call initiated' string.
C12_NoCompensation ==
    UpdateRefused =>
        /\ pc = "done"
        /\ raised = ""
        /\ RequestNames = CallOrder
        /\ trace[Len(trace)].ev = "response" /\ trace[Len(trace)].name = "UpdateRoomMetadata"
        /\ \E i \in 1..Len(trace) : trace[i] = Event("response", "CreateSIPParticipant", 200)
        /\ ret.t = "str"
        /\ Len(ret.v) > 3
        /\ SubSeq(ret.v, 1, 3) = <<"(check mark) ", "Call initiated", " to ">>
        /\ ret.v[Len(ret.v)] = "\n(robot) Attempting to add agent..."

C12_Witness ==
    /\ UpdateRefused
    /\ trace[Len(trace)] = Event("response", "UpdateRoomMetadata", 500)
    /\ Len(net) = 3
    /\ Contains(ret.v, <<"Call initiated">>)

\* one of the four configuration values is None or ''
SomeValueAbsent ==
    \E n \in {"LIVEKIT_URL", "LIVEKIT_API_KEY", "LIVEKIT_API_SECRET", "SIP_TRUNK_ID"} :
        config[n].t = "none" \/ config[n].v = <<>>

\* C13: when one of LIVEKIT_URL, LIVEKIT_API_KEY, LIVEKIT_API_SECRET and
\* SIP_TRUNK_ID is absent, create_room_and_call returns a string that begins
\* 'Error: Missing environment variables' with no token generated and no
\* request issued; nothing is raised, and generate_access_token is not called,
\* so its 'Missing LIVEKIT_API_KEY or LIVEKIT_API_SECRET' error never comes
\* out of create_room_and_call.
C13_MissingConfigReturnsError ==
    /\ (HasEvent("enter", "create_room_and_call") /\ SomeValueAbsent) =>
        /\ pc = "done"
        /\ raised = ""
        /\ ret.t = "str"
        /\ Len(ret.v) > 1
        /\ ret.v[1] = "Error: Missing environment variables: "
        /\ message = ret
        /\ net = <<>>
        /\ \A i \in 1..Len(trace) : trace[i].name # "generate_access_token" /\ trace[i].ev # "request"
    /\ HasEvent("enter", "create_room_and_call") =>
        ~(ret.t = "str" /\ Contains(ret.v, <<"Missing LIVEKIT_API_KEY or LIVEKIT_API_SECRET">>))

C13_Witness ==
    /\ handler = "index"
    /\ HasEvent("enter", "create_room_and_call")
    /\ config.LIVEKIT_API_KEY.t = "none"
    /\ config.LIVEKIT_URL.t = "str"
    /\ ret = PyStr(<<"Error: Missing environment variables: ", "LIVEKIT_API_KEY">>)

\* the trunk id is '' and nothing else is absent
C13_EmptyTrunkWitness ==
    /\ handler = "index"
    /\ HasEvent("enter", "create_room_and_call")
    /\ config.SIP_TRUNK_ID = PyStr(<<>>)
    /\ ret = PyStr(<<"Error: Missing environment variables: ", "SIP_TRUNK_ID">>)

\* ------------------------------------------------------------------------
\* Properties of the agent entrypoint (AgentSpec)
\* ------------------------------------------------------------------------
\* the text of the job's metadata, "" for None
MetadataText == IF ctx_room_metadata.t = "str" THEN ctx_room_metadata.v ELSE <<>>
\* the metadata is text json.loads rejects
MalformedMeta == MetadataText # <<>> /\ ~Loads(MetadataText).ok
\* the metadata is the text of a JSON object
ObjectMeta == MetadataText # <<>> /\ Loads(MetadataText).ok /\ Loads(MetadataText).val.t = "dict"
\* the value the object gives key k, None when it has none
MetaField(k) == IF <<k>> \in DOMAIN Loads(MetadataText).val.v THEN Loads(MetadataText).val.v[<<k>>] ELSE PyNone
\* agent_required is true and agent_name is 'telephone_agent'
GateSatisfied ==
    /\ ObjectMeta
    /\ MetaField("agent_required") = [t |-> "bool", v |-> <<"true">>]
    /\ MetaField("agent_name") = [t |-> "str", v |-> <<"telephone_agent">>]
\* the entrypoint went on to build the session
PastGate == agent_pc \in {"init_tts", "start_session", "connect", "greet"} \/ tts # ""
\* the entrypoint returned at the gate
SkippedAtGate == agent_pc = "returned" /\ tts = "" /\ ~attached /\ agent_exc = ""
GateDone == agent_pc # "called"

\* C3 as stated: the entrypoint proceeds past the join-gate if and only if the
\* metadata contains agent_required equal to true and agent_name equal to
\* 'telephone_agent'.
C3_Original == GateDone => (PastGate <=> GateSatisfied)

FalsyValues ==
    {[t |-> "none", v |-> <<>>], [t |-> "bool", v |-> <<"false">>], [t |-> "num", v |-> <<"0">>],
     [t |-> "str", v |-> <<>>], [t |-> "list", v |-> <<>>], [t |-> "dict", v |-> <<>>]}

\* C3 amended: the entrypoint proceeds past the join-gate if and only if the
\* metadata is text that is not valid JSON, or a JSON object whose
\* agent_required is truthy (true, a non-zero number, a non-empty string) and
\* whose agent_name equals 'telephone_agent'.
C3_GateDecision ==
    GateDone =>
        (PastGate <=>
            \/ MalformedMeta
            \/ /\ ObjectMeta
               /\ MetaField("agent_required") \notin FalsyValues
               /\ MetaField("agent_name") = [t |-> "str", v |-> <<"telephone_agent">>])

C3_Witness ==
    /\ GateSatisfied
    /\ PastGate
    /\ attached
    /\ agent_pc = "returned"

\* the cases the claim lists: no metadata, a wrong or missing agent_name, a
\* false or missing agent_required, text that is not JSON, JSON that is not an object
GateNotSatisfied ==
    \/ MetadataText = <<>>
    \/ MalformedMeta
    \/ ~ObjectMeta
    \/ ObjectMeta /\ MetaField("agent_name") # [t |-> "str", v |-> <<"telephone_agent">>]
    \/ ObjectMeta /\ MetaField("agent_required") \in {[t |-> "none", v |-> <<>>], [t |-> "bool", v |-> <<"false">>]}

\* C4: for every metadata that does not satisfy the gate the entrypoint
\* returns at once, without attaching and without raising an error.
C4_SkipsWithoutError == (GateDone /\ GateNotSatisfied) => SkippedAtGate

\* the metadata is a JSON object that has no agent_required
FlagAbsentMeta == ObjectMeta /\ <<"agent_required">> \notin DOMAIN Loads(MetadataText).val.v

\* C5 as stated: with malformed metadata the entrypoint reaches the outcome it
\* reaches when the metadata parses and has no agent_required: it returns
\* without attaching, and without an error.
C5_Original == (GateDone /\ (MalformedMeta \/ FlagAbsentMeta)) => SkippedAtGate

\* C5 amended: malformed metadata raises no error at the join-gate, but the
\* entrypoint does not decide as it does when the metadata parses and has no
\* agent_required: with the flag absent it returns without attaching, with
\* malformed metadata it proceeds past the gate to build and start the session.
C5_MalformedProceeds ==
    /\ (GateDone /\ FlagAbsentMeta) => SkippedAtGate
    /\ (GateDone /\ MalformedMeta) =>
        /\ PastGate
        /\ agent_exc # "AttributeError"
        /\ agent_pc \in {"returned", "raised"} => tts # ""

C5_Witness ==
    /\ MalformedMeta
    /\ attached
    /\ agent_pc = "returned"
    /\ agent_exc = ""

\* the agent worker running one job
AgentInit ==
    /\ config = [LIVEKIT_URL |-> PyStr(<<"wss://", "host", "/">>), LIVEKIT_API_KEY |-> PyStr(<<"key">>),
                 LIVEKIT_API_SECRET |-> PyStr(<<"secret">>), SIP_TRUNK_ID |-> PyStr(<<"trunk">>)]
    /\ AppIdle
    /\ ctx_room_metadata \in RoomMetadataValues
    /\ agent_pc = "called"
    /\ gate = ""
    /\ tts = ""
    /\ attached = FALSE
    /\ agent_exc = ""

AgentNext ==
    \/ EntrypointGate
    \/ EntrypointTTS
    \/ EntrypointStart
    \/ EntrypointConnect
    \/ EntrypointGreet

AgentSpec == AgentInit /\ [][AgentNext]_vars

\* ------------------------------------------------------------------------
\* The web application serving form submissions one after another
\* ------------------------------------------------------------------------
\* the number of earlier invocations the server is followed through
MaxEarlier == 2

\* lines 142, 287: the create-session request of the invocation was answered
\* with a 200
RoomCreated ==
    /\ net # <<>>
    /\ net[1].rpc = "RoomService/CreateRoom"
    /\ \E i \in 1..Len(trace) : trace[i] = Event("response", "CreateRoom", 200)

\* line 455: the server is done with a request and takes the next one; the
\* handler's locals are gone, the configuration and the clock stay, and the
\* room name (lines 92-93, 258-259) is remembered when the room got created
NextRequest ==
    /\ pc = "done"
    /\ Len(earlier) < MaxEarlier
    /\ earlier' = IF RoomCreated THEN Append(earlier, net[1].json.name) ELSE earlier
    /\ handler' = ""
    /\ request' = [method |-> "", form |-> PyNone]
    /\ pc' = "idle"
    /\ local' = NoLocal
    /\ response' = NoResponse
    /\ net' = <<>>
    /\ trace' = <<>>
    /\ ret' = PyNone
    /\ message' = PyNone
    /\ raised' = ""
    /\ UNCHANGED <<config, clock, agent_vars>>

ServerNext ==
    \/ IndexPost
    \/ CreateRoom
    \/ CreateSIPParticipant
    \/ CallWithAgentDelay
    \/ DelayCreateRoom
    \/ DelayCreateSIPParticipant
    \/ DelayUpdateRoomMetadata
    \/ Tick
    \/ NextRequest

ServerSpec == Init /\ [][ServerNext]_vars

\* the room the invocation being served was answered a 200 for, as a set
SessionsCreated ==
    {net[k].json.name : k \in {n \in 1..Len(net) :
        /\ net[n].rpc = "RoomService/CreateRoom"
        /\ \E i \in 1..Len(trace) : trace[i].ev = "response" /\ trace[i].name = "CreateRoom" /\ trace[i].status = 200}}

\* C11: every invocation of the bootstrap generates a room name that no other
\* invocation has generated, so that two submissions, also two in the same
\* second, address two different sessions.
C11_RoomNamesUnique ==
    /\ \A i \in 1..Len(earlier) : earlier[i] \notin SessionsCreated
    /\ \A i, j \in 1..Len(earlier) : i # j => earlier[i] # earlier[j]

\* ------------------------------------------------------------------------
\* The bootstrap and the agent worker together: one invocation, one job
\* ------------------------------------------------------------------------
\* the metadata update of the invocation was answered with a 200
UpdateApplied ==
    /\ Len(net) = 3
    /\ net[3].rpc = "RoomService/UpdateRoomMetadata"
    /\ \E i \in 1..Len(trace) : trace[i] = Event("response", "UpdateRoomMetadata", 200)

\* what ctx.room.metadata can be for the room of the invocation: the metadata
\* of the create-session request (lines 125-131 of app.py), replaced by that
\* of an update answered with a 200 (lines 318-325); a room without metadata
\* gives None or ''
JobMetadataValues ==
    LET sent == IF UpdateApplied THEN net[3].json.metadata ELSE net[1].json.metadata
    IN IF Truthy(sent) THEN {sent} ELSE {PyNone, PyStr(<<>>)}

\* agent.py 197-206 and 73-78: the worker is handed a job for the room of the
\* invocation, once the room exists
DispatchJob ==
    /\ agent_pc = "no_job"
    /\ RoomCreated
    /\ ctx_room_metadata' \in JobMetadataValues
    /\ agent_pc' = "called"
    /\ UNCHANGED <<gate, tts, attached, agent_exc, app_vars>>

EndToEndNext ==
    \/ IndexPost
    \/ CreateRoom
    \/ CreateSIPParticipant
    \/ CallWithAgentDelay
    \/ DelayCreateRoom
    \/ DelayCreateSIPParticipant
    \/ DelayUpdateRoomMetadata
    \/ Tick
    \/ DispatchJob
    \/ EntrypointGate
    \/ EntrypointTTS
    \/ EntrypointStart
    \/ EntrypointConnect
    \/ EntrypointGreet

EndToEndSpec == Init /\ [][EndToEndNext]_vars

\* the job's entrypoint has left the join-gate
JobPastGateCheck == agent_pc \notin {"no_job", "called"}
\* the job was handed no metadata
JobWithoutMetadata == ctx_room_metadata.t = "none" \/ ctx_room_metadata.v = <<>>
\* the entrypoint went on to set the session up
WentOn == gate = "proceed" /\ (agent_pc \in {"init_tts", "start_session", "connect", "greet"} \/ tts # "")
\* the entrypoint returned at the gate, with nothing raised
Rejected == gate = "skip" /\ agent_pc = "returned" /\ tts = "" /\ ~attached /\ agent_exc = ""

\* C14: the metadata create_room_and_call sends with its create-session
\* request always passes the join-gate of the agent's entrypoint; the
\* create-session request of create_room_and_call_with_agent_delay carries no
\* metadata, and a job for its room is rejected at the gate unless the
\* metadata update had been applied when the job was handed out.
C14_BootstrapAgreesWithGate ==
    /\ \A k \in 1..Len(net) :
        net[k].rpc = "RoomService/CreateRoom" =>
            IF handler = "index" THEN net[k].json.metadata.t = "str" /\ net[k].json.metadata.v # <<>>
            ELSE net[k].json.metadata.t = "none"
    /\ (JobPastGateCheck /\ handler = "index") => WentOn
    /\ (JobPastGateCheck /\ handler = "create_room_and_call_with_agent_delay") =>
        /\ JobWithoutMetadata => Rejected
        /\ ~JobWithoutMetadata => WentOn
        /\ WentOn => \E i \in 1..Len(trace) : trace[i] = Event("response", "UpdateRoomMetadata", 200)

\* the agent started its session in a room of create_room_and_call
C14_Witness ==
    /\ handler = "index"
    /\ attached
    /\ gate = "proceed"
    /\ ctx_room_metadata.t = "str"
    /\ Contains(ctx_room_metadata.v, <<Q, "sip_outbound", Q>>)

\* a job for the room of the delayed path is rejected before the update
C14_RejectedWitness ==
    /\ handler = "create_room_and_call_with_agent_delay"
    /\ Rejected
    /\ JobWithoutMetadata

\* a job for the room of the delayed path goes on after the update
C14_UpdatedWitness ==
    /\ handler = "create_room_and_call_with_agent_delay"
    /\ attached
    /\ Contains(ctx_room_metadata.v, <<Q, "call_established", Q>>)

====
